---- MODULE Spec2Model ----
(***************************************************************************)
(* PDF-SORTER: the bank/variant classification engine                      *)
(* (bank_detect.py, rules.py, text_layer.py, ocr_utils.py).                *)
(*                                                                         *)
(* A Python str is a sequence of characters.  A character is a one-letter  *)
(* string for printable ASCII, "\n" and "\t", and "U+XXXX" for any other   *)
(* code point.  Python's None is the record None; an Optional value that   *)
(* is not None is wrapped by Some.                                         *)
(***************************************************************************)
EXTENDS Integers, Sequences, FiniteSets, TLC

None == [none |-> TRUE]
Some(v) == [none |-> FALSE, val |-> v]

(***************************************************************************)
(* Characters                                                              *)
(***************************************************************************)
UpperAscii == <<"A","B","C","D","E","F","G","H","I","J","K","L","M",
                "N","O","P","Q","R","S","T","U","V","W","X","Y","Z">>
LowerAscii == <<"a","b","c","d","e","f","g","h","i","j","k","l","m",
                "n","o","p","q","r","s","t","u","v","w","x","y","z">>
UpperSet == {UpperAscii[i] : i \in 1..26}
LowerSet == {LowerAscii[i] : i \in 1..26}
Digits == {"0","1","2","3","4","5","6","7","8","9"}
LowerOf == [c \in UpperSet |-> LowerAscii[CHOOSE i \in 1..26 : UpperAscii[i] = c]]

IsUpperAscii(c) == c \in UpperSet
IsLowerAscii(c) == c \in LowerSet

\* str.isspace / the regex class \s on a str pattern, over the characters used here:
\* space, tab, newline, carriage return U+000D, no-break space U+00A0, line separator U+2028
WS == {" ", "\t", "\n", "U+000D", "U+00A0", "U+2028"}
IsSpace(c) == c \in WS

\* str.casefold of one character (full Unicode case folding; the result can be
\* longer than one character).  The characters it changes, among those used here:
\*   A-Z -> a-z;  U+0130 (capital I with dot above) -> "i" U+0307;
\*   U+00DF (sharp s) -> "ss";  the capitals of the domestic letters -> their small
\*   forms;  U+017F (long s) -> "s";  U+212A (Kelvin) -> "k";
\*   U+AB70 (Cherokee small letter a) -> U+13A0 (Cherokee capital letter a).
\* U+0131 (dotless i), U+13A0 and every uncased character are unchanged.
CaseFoldSpecial ==
    {"U+0130", "U+00DF", "U+00D6", "U+00DC", "U+015E", "U+011E", "U+00C7",
     "U+017F", "U+212A", "U+AB70"}
CaseFoldTable ==
    [c \in UpperSet \cup CaseFoldSpecial |->
        IF c \in UpperSet THEN <<LowerOf[c]>>
        ELSE CASE c = "U+0130" -> <<"i", "U+0307">>
               [] c = "U+00DF" -> <<"s", "s">>
               [] c = "U+00D6" -> <<"U+00F6">>
               [] c = "U+00DC" -> <<"U+00FC">>
               [] c = "U+015E" -> <<"U+015F">>
               [] c = "U+011E" -> <<"U+011F">>
               [] c = "U+00C7" -> <<"U+00E7">>
               [] c = "U+017F" -> <<"s">>
               [] c = "U+212A" -> <<"k">>
               [] c = "U+AB70" -> <<"U+13A0">>]
casefold_char(c) ==
    IF c \in UpperSet \cup CaseFoldSpecial THEN CaseFoldTable[c] ELSE <<c>>

\* str.isupper of one character (Unicode uppercase letters among the characters here)
IsUpper(c) ==
    \/ IsUpperAscii(c)
    \/ c \in {"U+0130", "U+00D6", "U+00DC", "U+015E", "U+011E", "U+00C7",
              "U+212A", "U+13A0"}

\* the six domestic small letters, their capitals and the dotted capital I
DomesticLetters ==
    {"U+0131", "U+00F6", "U+00FC", "U+015F", "U+011F", "U+00E7",
     "U+00D6", "U+00DC", "U+015E", "U+011E", "U+00C7", "U+0130"}

\* the translation table of normalize_text:
\* {"ı": "i", "ö": "o", "ü": "u", "ş": "s", "ğ": "g", "ç": "c"}
TrKeys == {"U+0131", "U+00F6", "U+00FC", "U+015F", "U+011F", "U+00E7"}
TrTable ==
    [c \in TrKeys |->
        CASE c = "U+0131" -> "i"
          [] c = "U+00F6" -> "o"
          [] c = "U+00FC" -> "u"
          [] c = "U+015F" -> "s"
          [] c = "U+011F" -> "g"
          [] c = "U+00E7" -> "c"]
tr(c) == IF c \in TrKeys THEN TrTable[c] ELSE c

\* the regex class \w on a str pattern: alphanumerics and underscore
WordChars ==
    UpperSet \cup LowerSet \cup Digits \cup {"_"} \cup DomesticLetters
        \cup {"U+00DF", "U+017F", "U+212A", "U+AB70", "U+13A0"}
IsWord(c) == c \in WordChars

\* the lower-case form the regex engine compares under re.I (simple lower-casing,
\* plus the engine's equivalence of i with dotless i and s with long s)
ReLowerSpecial ==
    {"U+0130", "U+0131", "U+017F", "U+212A", "U+00D6", "U+00DC", "U+015E",
     "U+011E", "U+00C7", "U+13A0"}
ReLowerTable ==
    [c \in UpperSet \cup ReLowerSpecial |->
        IF c \in UpperSet THEN LowerOf[c]
        ELSE CASE c = "U+0130" -> "i"
               [] c = "U+0131" -> "i"
               [] c = "U+017F" -> "s"
               [] c = "U+212A" -> "k"
               [] c = "U+00D6" -> "U+00F6"
               [] c = "U+00DC" -> "U+00FC"
               [] c = "U+015E" -> "U+015F"
               [] c = "U+011E" -> "U+011F"
               [] c = "U+00C7" -> "U+00E7"
               [] c = "U+13A0" -> "U+AB70"]
re_lower(c) == IF c \in UpperSet \cup ReLowerSpecial THEN ReLowerTable[c] ELSE c

(***************************************************************************)
(* Strings                                                                 *)
(***************************************************************************)
RECURSIVE Cat(_)
Cat(ss) == IF ss = <<>> THEN <<>> ELSE Head(ss) \o Cat(Tail(ss))

\* sep.join(parts)
RECURSIVE Join(_, _)
Join(sep, parts) ==
    IF parts = <<>> THEN <<>>
    ELSE IF Len(parts) = 1 THEN parts[1]
    ELSE parts[1] \o sep \o Join(sep, Tail(parts))

StartsWithAt(t, i, sub) ==
    /\ i + Len(sub) - 1 <= Len(t)
    /\ \A k \in 1..Len(sub) : t[i + k - 1] = sub[k]

\* sub in t
IsSubstr(sub, t) == \E i \in 1..(Len(t) + 1) : StartsWithAt(t, i, sub)

\* t.replace(old, new) for a non-empty old: left to right, non-overlapping
RECURSIVE ReplaceFrom(_, _, _, _)
ReplaceFrom(t, i, old, new) ==
    IF i > Len(t) THEN <<>>
    ELSE IF StartsWithAt(t, i, old) THEN new \o ReplaceFrom(t, i + Len(old), old, new)
    ELSE <<t[i]>> \o ReplaceFrom(t, i + 1, old, new)
str_replace(t, old, new) == ReplaceFrom(t, 1, old, new)

\* t.split(sep) for a one-character sep: the pieces between the separators,
\* empty pieces included
RECURSIVE SplitFrom(_, _, _, _)
SplitFrom(t, i, sep, cur) ==
    IF i > Len(t) THEN <<cur>>
    ELSE IF t[i] = sep THEN <<cur>> \o SplitFrom(t, i + 1, sep, <<>>)
    ELSE SplitFrom(t, i + 1, sep, Append(cur, t[i]))
str_split(t, sep) == SplitFrom(t, 1, sep, <<>>)

\* t.casefold()
str_casefold(t) ==
    IF \A i \in 1..Len(t) : t[i] \notin UpperSet \cup CaseFoldSpecial THEN t
    ELSE Cat([i \in 1..Len(t) |-> casefold_char(t[i])])

\* t.translate(table) with the table tr
str_translate(t) == [i \in 1..Len(t) |-> tr(t[i])]

\* t.strip()
RECURSIVE LStrip(_)
LStrip(t) == IF t # <<>> /\ IsSpace(Head(t)) THEN LStrip(Tail(t)) ELSE t
RECURSIVE RStrip(_)
RStrip(t) ==
    IF t # <<>> /\ IsSpace(t[Len(t)]) THEN RStrip(SubSeq(t, 1, Len(t) - 1)) ELSE t
str_strip(t) == RStrip(LStrip(t))

\* re.sub(r"\s+", repl, t) for a repl of at most one character: the first
\* character of every maximal run of whitespace becomes repl, the rest of the run
\* goes ("" marks a position that yields nothing)
re_sub_ws(repl, t) ==
    LET first == IF repl = <<>> THEN "" ELSE repl[1]
        marked == [i \in 1..Len(t) |->
                     IF IsSpace(t[i])
                     THEN (IF i > 1 /\ IsSpace(t[i - 1]) THEN "" ELSE first)
                     ELSE t[i]]
    IN  SelectSeq(marked, LAMBDA c : c # "")

\* re.sub(r"[^a-z0-9]", "", t)
re_sub_non_alnum(t) == SelectSeq(t, LAMBDA c : IsLowerAscii(c) \/ c \in Digits)

(***************************************************************************)
(* Regular expressions: a pattern is a sequence of elements                *)
(*   Chr(cs)   one character of the set cs          x   (?:a|e)   \.       *)
(*   Star(cs)  any number of characters of cs       \s*                    *)
(*   Opt(sub)  the pattern sub, or nothing          (?:...)?   \.?         *)
(*   WordB     a word boundary                      \b                     *)
(***************************************************************************)
Chr(cs) == [t |-> "chr", cs |-> cs]
Star(cs) == [t |-> "star", cs |-> cs]
Opt(sub) == [t |-> "opt", sub |-> sub]
WordB == [t |-> "b"]
WsStar == Star(WS)
Lit(s) == [i \in 1..Len(s) |-> Chr({s[i]})]

ClassHas(cs, c, ic) == IF ic THEN \E x \in cs : re_lower(x) = re_lower(c) ELSE c \in cs

WordAt(t, p) == p >= 1 /\ p <= Len(t) /\ IsWord(t[p])

\* the positions reached from S by reading any number of characters of cs
RECURSIVE StarClose(_, _, _, _, _)
StarClose(t, cs, ic, S, frontier) ==
    LET new == {p + 1 : p \in {q \in frontier : q <= Len(t) /\ ClassHas(cs, t[q], ic)}} \ S
    IN  IF new = {} THEN S ELSE StarClose(t, cs, ic, S \cup new, new)

\* the positions a match of pat can end at (one past its last character) when it
\* starts at some position of S; ic is the re.I flag
RECURSIVE MatchEnds(_, _, _, _)
MatchEnds(pat, t, S, ic) ==
    IF pat = <<>> \/ S = {} THEN S
    ELSE LET e == Head(pat)
             S1 == CASE e.t = "chr" ->
                          {p + 1 : p \in {q \in S : q <= Len(t) /\ ClassHas(e.cs, t[q], ic)}}
                      [] e.t = "star" -> StarClose(t, e.cs, ic, S, S)
                      [] e.t = "opt" -> S \cup MatchEnds(e.sub, t, S, ic)
                      [] e.t = "b" -> {p \in S : WordAt(t, p - 1) # WordAt(t, p)}
         IN  MatchEnds(Tail(pat), t, S1, ic)

\* re.search(pat, t, flags) is not None
re_search(pat, t, ic) == MatchEnds(pat, t, 1..(Len(t) + 1), ic) # {}

(***************************************************************************)
(* text_layer.py                                                           *)
(***************************************************************************)
\* text or ""
OrEmpty(text) == IF text = None THEN <<>> ELSE text.val

\* the statements of normalize_text, in order
nt_casefold(text) == str_casefold(OrEmpty(text))
\* a variant of nt_strip_dot that removes the first dot above only (replace count 1)
RECURSIVE ReplaceFirstFrom(_, _, _, _)
ReplaceFirstFrom(t, i, old, new) ==
    IF i > Len(t) THEN <<>>
    ELSE IF StartsWithAt(t, i, old) THEN new \o SubSeq(t, i + Len(old), Len(t))
    ELSE <<t[i]>> \o ReplaceFirstFrom(t, i + 1, old, new)
nt_strip_dot_first_only(t) == ReplaceFirstFrom(t, 1, <<"U+0307">>, <<>>)
nt_strip_dot(t) == str_replace(t, <<"U+0307">>, <<>>)
\* a variant of nt_translate whose table has no entry for the dotless i
nt_translate_no_dotless(t) ==
    [i \in 1..Len(t) |-> IF t[i] = "U+0131" THEN t[i] ELSE tr(t[i])]
nt_translate(t) == str_translate(t)
nt_collapse(t) == re_sub_ws(<<" ">>, t)
nt_strip(t) == str_strip(t)

normalize_text(text) ==
    nt_strip(nt_collapse(nt_translate(nt_strip_dot(nt_casefold(text)))))

\* the three tiers of has_domain, for a prepared (casefolded, stripped) domain
TierSubstring(t, dom) == IsSubstr(dom, t)
TierCompact(t, dom) == IsSubstr(dom, re_sub_ws(<<>>, t))
domain_parts(dom) ==
    SelectSeq(str_split(str_replace(dom, <<"w","w","w",".">>, <<>>), "."),
              LAMBDA p : p # <<>>)
domain_pattern(parts) ==
    <<Opt(Lit(<<"w","w","w">>) \o <<WsStar, Chr({"."}), WsStar>>)>>
        \o Join(<<WsStar, Chr({"."}), WsStar>>, [i \in 1..Len(parts) |-> Lit(parts[i])])
TierRegex(t, dom) ==
    LET parts == domain_parts(dom)
    IN  parts # <<>> /\ re_search(domain_pattern(parts), t, TRUE)

\* a variant of has_domain without the whitespace-free copy of the text
has_domain_two_tiers(text_norm, domain) ==
    LET t == text_norm
        dom == str_strip(str_casefold(domain))
    IN  IF dom = <<>> THEN FALSE
        ELSE IF TierSubstring(t, dom) THEN TRUE
        ELSE TierRegex(t, dom)

has_domain(text_norm, domain) ==
    LET t == text_norm
        dom == str_strip(str_casefold(domain))
    IN  IF dom = <<>> THEN FALSE
        ELSE IF TierSubstring(t, dom) \/ TierCompact(t, dom) THEN TRUE
        ELSE TierRegex(t, dom)


(***************************************************************************)
(* rules.py: the configuration tables.  A dict is the sequence of its      *)
(* entries in insertion order, which is the order a for loop visits them.  *)
(***************************************************************************)
BANK_DOMAINS == <<
    [key |-> "PTTBANK", bank |-> "PttBank",
     domains |-> <<<<"p","t","t","b","a","n","k",".","p","t","t",".","g","o","v",".","t","r">>>>],
    [key |-> "HALKBANK", bank |-> "Halkbank",
     domains |-> <<<<"h","a","l","k","b","a","n","k",".","c","o","m",".","t","r">>>>],
    [key |-> "TOMBANK", bank |-> "TOM Bank",
     domains |-> <<<<"t","o","m","b","a","n","k",".","c","o","m",".","t","r">>>>],
    [key |-> "ISBANK", bank |-> "Isbank",
     domains |-> <<<<"i","s","b","a","n","k",".","c","o","m",".","t","r">>>>],
    [key |-> "TURKIYE_FINANS", bank |-> "TurkiyeFinans",
     domains |-> <<<<"t","u","r","k","i","y","e","f","i","n","a","n","s",".","c","o","m",".","t","r">>>>],
    [key |-> "ING", bank |-> "ING",
     domains |-> <<<<"i","n","g",".","c","o","m",".","t","r">>>>],
    [key |-> "TEB", bank |-> "TEB",
     domains |-> <<<<"t","e","b",".","c","o","m",".","t","r">>>>],
    [key |-> "VAKIF_KATILIM", bank |-> "VakifKatilim",
     domains |-> <<<<"v","a","k","i","f","k","a","t","i","l","i","m",".","c","o","m",".","t","r">>>>],
    [key |-> "VAKIFBANK", bank |-> "VakifBank",
     domains |-> <<<<"v","a","k","i","f","b","a","n","k",".","c","o","m",".","t","r">>>>],
    [key |-> "QNB", bank |-> "QNB",
     domains |-> <<<<"q","n","b",".","c","o","m",".","t","r">>>>],
    [key |-> "ZIRAAT", bank |-> "Ziraat",
     domains |-> <<<<"z","i","r","a","a","t","b","a","n","k",".","c","o","m",".","t","r">>>>],
    [key |-> "KUVEYT_TURK", bank |-> "KuveytTurk",
     domains |-> <<<<"k","u","v","e","y","t","t","u","r","k",".","c","o","m",".","t","r">>>>],
    [key |-> "GARANTI", bank |-> "Garanti",
     domains |-> <<<<"g","a","r","a","n","t","i","b","b","v","a",".","c","o","m",".","t","r">>>>],
    [key |-> "ENPARA", bank |-> "Enpara",
     domains |-> <<<<"e","n","p","a","r","a",".","c","o","m">>>>],
    [key |-> "AKBANK", bank |-> "Akbank",
     domains |-> <<<<"a","k","b","a","n","k",".","c","o","m">>>>],
    [key |-> "YAPIKREDI", bank |-> "YapiKredi",
     domains |-> <<<<"y","a","p","i","k","r","e","d","i",".","c","o","m",".","t","r">>>>],
    [key |-> "DENIZBANK", bank |-> "DenizBank",
     domains |-> <<<<"d","e","n","i","z","b","a","n","k",".","c","o","m",".","t","r">>,
                 <<"d","e","n","i","z","b","a","n","k",".","c","o","m">>>>],
    [key |-> "FIBABANKA", bank |-> "Fibabanka",
     domains |-> <<<<"f","i","b","a","b","a","n","k","a",".","c","o","m",".","t","r">>>>],
    [key |-> "UPT", bank |-> "UPT",
     domains |-> <<<<"u","p","t",".","c","o","m",".","t","r">>,
                 <<"u","p","t","i","o","n",".","c","o","m",".","t","r">>>>],
    [key |-> "ZIRAATKATILIM", bank |-> "ZiraatKatilim",
     domains |-> <<<<"z","i","r","a","a","t","k","a","t","i","l","i","m",".","c","o","m",".","t","r">>>>],
    [key |-> "ALBARAKA", bank |-> "Albaraka",
     domains |-> <<<<"a","l","b","a","r","a","k","a",".","c","o","m",".","t","r">>>>]
>>

\* OCR allowlist (only these may be detected by OCR)
OCR_DOMAIN_BANKS == <<
    [key |-> "DENIZBANK", bank |-> "DenizBank",
     domains |-> <<<<"d","e","n","i","z","b","a","n","k",".","c","o","m",".","t","r">>,
                 <<"d","e","n","i","z","b","a","n","k",".","c","o","m">>>>],
    [key |-> "ZIRAATKATILIM", bank |-> "ZiraatKatilim",
     domains |-> <<<<"z","i","r","a","a","t","k","a","t","i","l","i","m",".","c","o","m",".","t","r">>>>],
    [key |-> "ALBARAKA", bank |-> "Albaraka",
     domains |-> <<<<"a","l","b","a","r","a","k","a",".","c","o","m",".","t","r">>>>]
>>

DENIZ_TEXT_MARKERS == <<
    <<"d","e","n","i","z","b","a","n","k"," ","a",".","s">>,
    <<"d","e","n","i","z","b","a","n","k"," ","a",".","U+015F">>,
    <<"d","e","n","i","z","b","a","n","k">>,
    <<"m","o","b","i","l","d","e","n","i","z">>
>>

\* the banks with a variant rule, each with the name of its rule function
VARIANT_AFTER_BANK == <<
    [key |-> "DENIZBANK", fn |-> "_variant_deniz"],
    [key |-> "ALBARAKA", fn |-> "_variant_albaraka"]
>>

(***************************************************************************)
(* State                                                                   *)
(***************************************************************************)
VARIABLES
    tables,     \* the module-level tables of rules.py, as the running process holds them
    pool,       \* the documents on disk that a caller may classify
    calls,      \* the number of detect_bank_variant calls started
    seen,       \* the (document, returned record) pair of every finished call, in call order
    pc,         \* the position of the current detect_bank_variant call
    pdf_path,   \* its argument: the document
    text_norm,  \* its local text_norm
    det,        \* its local det
    trace,      \* the attempts it has made so far, in order
    result,     \* what the last finished call returned
    nin, nstage, nwork, npass, nfirst,      \* a run of normalize_text, statement by statement
    ddom, dtext, dlo, dhi, dgaps, dres,     \* a has_domain query on a whitespace-damaged text
    vkey, vtext, vout,                      \* an apply_variant query
    fs,          \* the folder: what each path names (a file, a symlink, nothing)
    fs0,         \* the folder as it was when remove_duplicates was called
    dup_dir,     \* the entries of the _DUPLICATES folder
    pdfs,        \* the argument of remove_duplicates: a list of paths
    by_size,     \* its local by_size, in insertion order
    gi,          \* the position of its loop over by_size.items()
    kept,        \* its local kept
    deleted, moved, failed,                 \* its counters
    rd_pc,       \* the position of the remove_duplicates call
    unique_kept  \* what it returned

detect_vars == <<tables, pool, calls, seen, pc, pdf_path, text_norm, det, trace, result>>
norm_vars == <<nin, nstage, nwork, npass, nfirst>>
dom_vars == <<ddom, dtext, dlo, dhi, dgaps, dres>>
var_vars == <<vkey, vtext, vout>>
dup_vars ==
    <<fs, fs0, dup_dir, pdfs, by_size, gi, kept, deleted, moved, failed, rd_pc, unique_kept>>
pure_vars == <<norm_vars, dom_vars, var_vars, dup_vars>>
vars == <<detect_vars, pure_vars>>

(***************************************************************************)
(* rules.py: detection                                                     *)
(***************************************************************************)
\* {"key": key, "bank": bank_name, "variant": None, "method": method}
BankRecord(entry, method) ==
    [key |-> entry.key, bank |-> entry.bank, variant |-> None, method |-> method]

\* for key, (bank_name, domains) in table.items(): for dom in domains:
\*     if has_domain(text_norm, dom): return {...}
\* return None
RECURSIVE ScanTextDomains(_, _, _)
ScanTextDomains(table, text, i) ==
    IF i > Len(table) THEN None
    ELSE IF \E j \in 1..Len(table[i].domains) : has_domain(text, table[i].domains[j])
         THEN BankRecord(table[i], "text-domain")
         ELSE ScanTextDomains(table, text, i + 1)

\* a variant of detect_bank_by_text_domains that lets the name markers decide first
detect_bank_by_text_domains_name_first(text) ==
    IF \E i \in 1..Len(tables.DENIZ_TEXT_MARKERS) : IsSubstr(tables.DENIZ_TEXT_MARKERS[i], text)
    THEN [key |-> "DENIZBANK", bank |-> "DenizBank", variant |-> None, method |-> "text-name"]
    ELSE ScanTextDomains(tables.BANK_DOMAINS, text, 1)

\* a variant of detect_bank_by_text_domains in which the last configured match wins
RECURSIVE ScanTextDomainsLast(_, _, _)
ScanTextDomainsLast(table, text, i) ==
    IF i < 1 THEN None
    ELSE IF \E j \in 1..Len(table[i].domains) : has_domain(text, table[i].domains[j])
         THEN BankRecord(table[i], "text-domain")
         ELSE ScanTextDomainsLast(table, text, i - 1)
detect_bank_by_text_domains_last_wins(text) ==
    ScanTextDomainsLast(tables.BANK_DOMAINS, text, Len(tables.BANK_DOMAINS))

detect_bank_by_text_domains(text) == ScanTextDomains(tables.BANK_DOMAINS, text, 1)

detect_deniz_by_text_name(text) ==
    IF \E i \in 1..Len(tables.DENIZ_TEXT_MARKERS) : IsSubstr(tables.DENIZ_TEXT_MARKERS[i], text)
    THEN [key |-> "DENIZBANK", bank |-> "DenizBank", variant |-> None, method |-> "text-name"]
    ELSE None

\* x\s* for every character x of s
Spaced(s) == Cat([i \in 1..Len(s) |-> <<Chr({s[i]}), WsStar>>])

\* the pattern of _has_domain_ocr for ziraatkatilim.com.tr
ziraatkatilim_pat ==
    <<Opt(Lit(<<"w","w","w">>) \o <<WsStar>>)>>
    \o Spaced(<<"z","i","r","a">>) \o <<Chr({"a","e"}), WsStar>> \o Spaced(<<"t">>)
    \o Spaced(<<"k","a","t","i">>) \o <<Opt(<<Chr({"l"}), WsStar>>), Opt(<<Chr({"i","l"})>>), WsStar>>
    \o Spaced(<<"m">>)
    \o <<Opt(<<WsStar, Opt(<<Chr({"."})>>), WsStar>>)>>
    \o Spaced(<<"c","o","m">>) \o <<Opt(<<Chr({"."})>>), WsStar>> \o Spaced(<<"t">>) \o <<Chr({"r"})>>

_has_domain_ocr(text, domain) ==
    IF text = <<>> \/ domain = <<>> THEN FALSE
    ELSE IF has_domain(text, domain) THEN TRUE
    ELSE LET dom == str_strip(str_casefold(domain))
         IN  IF dom = <<"z","i","r","a","a","t","k","a","t","i","l","i","m",".","c","o","m",".","t","r">>
             THEN IF re_search(ziraatkatilim_pat, text, TRUE) THEN TRUE
                  ELSE LET core == re_sub_non_alnum(text)
                       IN  \/ IsSubstr(<<"z","i","r","a","a","t","k","a","t","i","l","i","m","c","o","m","t","r">>, core)
                           \/ IsSubstr(<<"z","i","r","a","e","t","k","a","t","i","i","m","c","o","m","t","r">>, core)
             ELSE FALSE

(***************************************************************************)
(* rules.py: variants                                                      *)
(***************************************************************************)
fast_pat == <<WordB>> \o Lit(<<"f","a","s","t">>) \o <<WordB>>

\* a variant of _variant_deniz that proposes a key of its own for the FAST layout
_variant_deniz_rekeyed(text) ==
    IF re_search(fast_pat, text, FALSE) THEN <<"DENIZBANK_FAST", Some("FAST")>>
    ELSE <<"DENIZBANK", Some("UNKNOWN")>>

\* a variant of _variant_deniz that looks for "fast" anywhere, word or not
_variant_deniz_substring(text) ==
    IF IsSubstr(<<"f","a","s","t">>, text) THEN <<"DENIZBANK", Some("FAST")>>
    ELSE <<"DENIZBANK", Some("UNKNOWN")>>

_variant_deniz(text) ==
    IF re_search(fast_pat, text, FALSE) THEN <<"DENIZBANK", Some("FAST")>>
    ELSE <<"DENIZBANK", Some("UNKNOWN")>>

_variant_albaraka(text) ==
    IF \/ re_search(fast_pat, text, FALSE)
       \/ IsSubstr(<<"f","a","s","t"," ","s","o","r","g","u"," ","n","u","m","a","r","a","s","i">>, text)
    THEN <<"ALBARAKA", Some("FAST")>>
    ELSE <<"ALBARAKA", Some("UNKNOWN")>>

\* VARIANT_AFTER_BANK.get(bank_key)
variant_rule(bank_key) ==
    LET reg == tables.VARIANT_AFTER_BANK
        idx == {i \in 1..Len(reg) : reg[i].key = bank_key}
    IN  IF idx = {} THEN None ELSE Some(reg[CHOOSE i \in idx : TRUE].fn)

apply_variant(bank_key, text) ==
    LET fn == variant_rule(bank_key)
    IN  IF fn = None THEN <<bank_key, None>>
        ELSE IF fn.val = "_variant_deniz" THEN _variant_deniz(text)
        ELSE _variant_albaraka(text)

(***************************************************************************)
(* Documents.  A document is what the two extraction libraries make of the *)
(* file: whether pypdf can open it, the text of its pages (None for a page *)
(* without text), and what the OCR chain does on its first page.           *)
(***************************************************************************)
Raise == [exc |-> TRUE]
Ret(v) == [exc |-> FALSE, val |-> v]

max_pages == 2

\* PdfReader(str(pdf_path)).pages: raises on a corrupt, encrypted or non-PDF file
PdfReader(doc) == IF doc.readable THEN Ret(doc.pages) ELSE Raise

\* a variant of extract_text without the except clause
extract_text_no_except(doc, n) ==
    LET r == PdfReader(doc)
    IN  IF r.exc THEN Raise
        ELSE LET pages == SubSeq(r.val, 1, IF Len(r.val) < n THEN Len(r.val) ELSE n)
             IN  Ret(Join(<<"\n">>, [i \in 1..Len(pages) |-> OrEmpty(pages[i])]))

\* text_layer.extract_text: the try block, and except Exception: return ""
extract_text(doc, n) ==
    LET r == PdfReader(doc)
    IN  IF r.exc THEN Ret(<<>>)
        ELSE LET pages == SubSeq(r.val, 1, IF Len(r.val) < n THEN Len(r.val) ELSE n)
             IN  Ret(Join(<<"\n">>, [i \in 1..Len(pages) |-> OrEmpty(pages[i])]))

\* the import of pdf2image and pytesseract
import_ocr(doc) == IF doc.ocr.kind = "no_dependency" THEN Raise ELSE Ret(TRUE)
\* convert_from_path(str(pdf_path), first_page=1, last_page=1): the page images
convert_from_path(doc) ==
    CASE doc.ocr.kind = "convert_raises" -> Raise
      [] doc.ocr.kind = "no_images" -> Ret(<<>>)
      [] OTHER -> Ret(<<doc.ocr>>)
\* pytesseract.image_to_string(image)
image_to_string(image) == IF image.kind = "recognize_raises" THEN Raise ELSE Ret(image.text)

\* ocr_utils.ocr_first_page_text: both try blocks, each with except Exception: return ""
ocr_first_page_text(doc) ==
    IF import_ocr(doc).exc THEN Ret(<<>>)
    ELSE LET images == convert_from_path(doc)
         IN  IF images.exc THEN Ret(<<>>)
             ELSE IF images.val = <<>> THEN Ret(<<>>)
             ELSE LET s == image_to_string(images.val[1])
                  IN  IF s.exc THEN Ret(<<>>) ELSE Ret(OrEmpty(s.val))

\* for key, (bank_name, domains) in table.items(): for dom in domains:
\*     if _has_domain_ocr(t, dom): return {...}
\* return None
RECURSIVE ScanOcrDomains(_, _, _)
ScanOcrDomains(table, t, i) ==
    IF i > Len(table) THEN None
    ELSE IF \E j \in 1..Len(table[i].domains) : _has_domain_ocr(t, table[i].domains[j])
         THEN BankRecord(table[i], "ocr-domain")
         ELSE ScanOcrDomains(table, t, i + 1)

\* a variant of detect_bank_by_ocr_domains that scans BANK_DOMAINS, not the allowlist
detect_bank_by_ocr_domains_all_banks(doc) ==
    LET raw == ocr_first_page_text(doc)
    IN  IF raw.exc THEN Raise
        ELSE IF raw.val = <<>> THEN Ret(None)
        ELSE Ret(ScanOcrDomains(tables.BANK_DOMAINS, normalize_text(Some(raw.val)), 1))

\* rules.detect_bank_by_ocr_domains; an exception of the OCR pass would pass through
detect_bank_by_ocr_domains(doc) ==
    LET raw == ocr_first_page_text(doc)
    IN  IF raw.exc THEN Raise
        ELSE IF raw.val = <<>> THEN Ret(None)
        ELSE Ret(ScanOcrDomains(tables.OCR_DOMAIN_BANKS, normalize_text(Some(raw.val)), 1))

UNKNOWN == [key |-> "UNKNOWN", bank |-> "Unknown", variant |-> None, method |-> "none"]


(***************************************************************************)
(* delete_pdf_duplicates.py.  The folder is a function from path to what   *)
(* the path names: a regular file (its bytes, its modification time), a    *)
(* symlink to another path, or nothing.  RECURSIVE is False, so every path *)
(* lies directly in the root and a path is known by its name.              *)
(***************************************************************************)
DELETE_DUPLICATES == TRUE

NoEntry == [kind |-> "none", bytes |-> <<>>, mtime |-> 0, target |-> "", fault |-> "none"]
File(b, t, flt) == [kind |-> "file", bytes |-> b, mtime |-> t, target |-> "", fault |-> flt]
Link(q) == [kind |-> "link", bytes |-> <<>>, mtime |-> 0, target |-> q, fault |-> "none"]

\* Path.resolve(): the path a symlink points to, the path itself otherwise
resolve(f, p) == IF f[p].kind = "link" THEN f[p].target ELSE p
\* Path.exists(): follows a symlink
exists(f, p) == f[resolve(f, p)].kind = "file"
\* Path.stat(): follows a symlink; FileNotFoundError when nothing is there
stat(f, p) ==
    IF exists(f, p)
    THEN Ret([st_size |-> Len(f[resolve(f, p)].bytes), st_mtime |-> f[resolve(f, p)].mtime])
    ELSE Raise
\* sha256_file: the digest of the bytes read through the path, here the bytes
\* themselves (no two contents of the model collide); raises when the file cannot
\* be opened or read
sha256_file(f, p) ==
    IF ~exists(f, p) \/ f[resolve(f, p)].fault = "hash" THEN Raise
    ELSE Ret(f[resolve(f, p)].bytes)
\* Path.unlink(): removes the entry the path names, a symlink itself and not its
\* target; raises when the entry cannot be removed
unlink(f, p) ==
    IF f[p].kind = "none" \/ f[p].fault = "remove" THEN Raise
    ELSE Ret([f EXCEPT ![p] = NoEntry])

\* the order of str on the names of the model
NameOrder == <<"a.pdf", "b.pdf", "c.pdf", "d.pdf", "e.pdf">>
NameIndex(p) == CHOOSE i \in 1..Len(NameOrder) : NameOrder[i] = p

\* the _DUPLICATES folder is the sequence of its entries: name and n say which
\* path (n = 1: the name itself, n >= 2: "stem (n).pdf"), entry what the path names;
\* a symlink in it points to a path of the root
DupEntry(dd, p, i) ==
    IF \E k \in 1..Len(dd) : dd[k].name = p /\ dd[k].n = i
    THEN dd[CHOOSE k \in 1..Len(dd) : dd[k].name = p /\ dd[k].n = i].entry
    ELSE NoEntry
\* dst.exists() for a path of _DUPLICATES: follows a symlink
DupExists(f, dd, p, i) ==
    \/ DupEntry(dd, p, i).kind = "file"
    \/ DupEntry(dd, p, i).kind = "link" /\ exists(f, DupEntry(dd, p, i).target)
\* dst.resolve() == src.resolve(): dst is a symlink that leads to the file of src
DupResolvesTo(f, dd, p, i, src) ==
    /\ DupEntry(dd, p, i).kind = "link"
    /\ resolve(f, DupEntry(dd, p, i).target) = resolve(f, src)
\* the entry at (p, i) is replaced by e, or e is added
DupPut(dd, p, i, e) ==
    Append(SelectSeq(dd, LAMBDA x : ~(x.name = p /\ x.n = i)), [name |-> p, n |-> i, entry |-> e])

\* safe_move, lines 54-65: dst is dst_dir / src.name unless that exists and is not
\* src itself; then it is "stem (i).pdf" for the first i >= 2 that does not exist
FreeIndex(f, dd, p) ==
    IF ~DupExists(f, dd, p, 1) \/ DupResolvesTo(f, dd, p, 1, p) THEN 1
    ELSE CHOOSE i \in 2..(Len(dd) + 2) :
            /\ ~DupExists(f, dd, p, i)
            /\ \A j \in 2..(i - 1) : DupExists(f, dd, p, j)

\* shutil.move(src, dst): os.rename puts the entry of src at dst, over what dst
\* names.  When the entry cannot be taken out of the folder, os.rename raises and
\* shutil.move copies instead (through a symlink at dst, and not onto src itself),
\* then raises at os.unlink(src): the copy stays.
shutil_move(f, dd, p, i) ==
    IF f[p].kind = "none" THEN [exc |-> TRUE, fs |-> f, dup_dir |-> dd]
    ELSE IF f[p].fault # "remove"
    THEN [exc |-> FALSE, fs |-> [f EXCEPT ![p] = NoEntry], dup_dir |-> DupPut(dd, p, i, f[p])]
    ELSE IF DupResolvesTo(f, dd, p, i, p) THEN [exc |-> TRUE, fs |-> f, dup_dir |-> dd]
    ELSE IF DupEntry(dd, p, i).kind = "link"
    THEN [exc |-> TRUE,
          fs |-> [f EXCEPT ![resolve(f, DupEntry(dd, p, i).target)] =
                               File(f[p].bytes, f[p].mtime, "none")],
          dup_dir |-> dd]
    ELSE [exc |-> TRUE, fs |-> f,
          dup_dir |-> DupPut(dd, p, i, File(f[p].bytes, f[p].mtime, "none"))]

\* safe_move(src, dst_dir): what it leaves behind, and whether it raised
safe_move(f, dd, p) == shutil_move(f, dd, p, FreeIndex(f, dd, p))

\* d.setdefault(k, []).append(p) on a dict kept as the sequence of its items
SetDefaultAppend(d, k, p) ==
    IF \E i \in 1..Len(d) : d[i].key = k
    THEN [i \in 1..Len(d) |-> IF d[i].key = k THEN [d[i] EXCEPT !.group = Append(@, p)] ELSE d[i]]
    ELSE Append(d, [key |-> k, group |-> <<p>>])

\* for p in pdfs: try: by_size.setdefault(p.stat().st_size, []).append(p)
\*                except FileNotFoundError: continue
RECURSIVE GroupBySize(_, _, _, _)
GroupBySize(f, ps, i, acc) ==
    IF i > Len(ps) THEN acc
    ELSE IF stat(f, ps[i]).exc THEN GroupBySize(f, ps, i + 1, acc)
    ELSE GroupBySize(f, ps, i + 1, SetDefaultAppend(acc, stat(f, ps[i]).val.st_size, ps[i]))

\* for p in group: try: by_hash.setdefault(sha256_file(p), []).append(p)
\*                 except Exception: kept.append(p)
RECURSIVE HashGroup(_, _, _, _)
HashGroup(f, group, i, acc) ==
    IF i > Len(group) THEN acc
    ELSE IF sha256_file(f, group[i]).exc
         THEN HashGroup(f, group, i + 1, [acc EXCEPT !.kept = Append(@, group[i])])
         ELSE HashGroup(f, group, i + 1,
                [acc EXCEPT !.by_hash = SetDefaultAppend(@, sha256_file(f, group[i]).val, group[i])])

\* the sort key (x.stat().st_mtime, x.name) of x is below that of y
KeyLess(f, x, y) ==
    \/ stat(f, x).val.st_mtime < stat(f, y).val.st_mtime
    \/ /\ stat(f, x).val.st_mtime = stat(f, y).val.st_mtime
       /\ NameIndex(x) < NameIndex(y)
\* sorted(hgroup, key=...): a stable sort, an element goes behind the equal ones
\* that came before it
InsertSorted(f, srt, x) ==
    LET k == Cardinality({j \in 1..Len(srt) : ~KeyLess(f, x, srt[j])})
    IN  SubSeq(srt, 1, k) \o <<x>> \o SubSeq(srt, k + 1, Len(srt))
RECURSIVE SortFrom(_, _, _, _)
SortFrom(f, hgroup, i, acc) ==
    IF i > Len(hgroup) THEN acc
    ELSE SortFrom(f, hgroup, i + 1, InsertSorted(f, acc, hgroup[i]))
sorted(f, hgroup) == SortFrom(f, hgroup, 1, <<>>)

\* for dup in hgroup_sorted[1:]: skip it when it is gone, else unlink it or move it,
\* and keep it when that raises
RECURSIVE RemoveDups(_, _, _)
RemoveDups(st, dups, i) ==
    IF i > Len(dups) THEN st
    ELSE IF ~exists(st.fs, dups[i]) THEN RemoveDups(st, dups, i + 1)
    ELSE IF DELETE_DUPLICATES
         THEN IF unlink(st.fs, dups[i]).exc
              THEN RemoveDups([st EXCEPT !.failed = @ + 1, !.kept = Append(@, dups[i])],
                              dups, i + 1)
              ELSE RemoveDups([st EXCEPT !.fs = unlink(st.fs, dups[i]).val, !.deleted = @ + 1],
                              dups, i + 1)
         ELSE IF safe_move(st.fs, st.dup_dir, dups[i]).exc
              THEN RemoveDups([st EXCEPT !.fs = safe_move(st.fs, st.dup_dir, dups[i]).fs,
                                         !.dup_dir = safe_move(st.fs, st.dup_dir, dups[i]).dup_dir,
                                         !.failed = @ + 1, !.kept = Append(@, dups[i])],
                              dups, i + 1)
              ELSE RemoveDups([st EXCEPT !.fs = safe_move(st.fs, st.dup_dir, dups[i]).fs,
                                         !.dup_dir = safe_move(st.fs, st.dup_dir, dups[i]).dup_dir,
                                         !.moved = @ + 1],
                              dups, i + 1)

\* for digest, hgroup in by_hash.items(): a lone file is kept; otherwise the first
\* of the sorted group is kept and the others are removed.  x.stat() in the sort
\* key raises when a member is gone, and nothing catches that.
RECURSIVE RemoveByHash(_, _, _)
RemoveByHash(st, by_hash, j) ==
    IF j > Len(by_hash) \/ st.exc THEN st
    ELSE LET hgroup == by_hash[j].group
         IN  IF Len(hgroup) = 1
             THEN RemoveByHash([st EXCEPT !.kept = Append(@, hgroup[1])], by_hash, j + 1)
             ELSE IF \E k \in 1..Len(hgroup) : stat(st.fs, hgroup[k]).exc
             THEN [st EXCEPT !.exc = TRUE]
             ELSE LET hgroup_sorted == sorted(st.fs, hgroup)
                      keeper == hgroup_sorted[1]
                  IN  RemoveByHash(
                        RemoveDups([st EXCEPT !.kept = Append(@, keeper)],
                                   SubSeq(hgroup_sorted, 2, Len(hgroup_sorted)), 1),
                        by_hash, j + 1)

\* the last loop: the kept paths that still exist, one per resolved path
RECURSIVE UniqueKept(_, _, _, _, _)
UniqueKept(f, ks, i, seen_rp, out) ==
    IF i > Len(ks) THEN out
    ELSE IF resolve(f, ks[i]) \notin seen_rp /\ exists(f, ks[i])
         THEN UniqueKept(f, ks, i + 1, seen_rp \cup {resolve(f, ks[i])}, Append(out, ks[i]))
         ELSE UniqueKept(f, ks, i + 1, seen_rp, out)

(***************************************************************************)
(* The documents of the model                                              *)
(***************************************************************************)
MaxPages == 2
MaxCalls == 3

\* what page.extract_text() returns for a page
PageTexts == {
    None,
    Some(<<"D","e","n","i","z","B","a","n","k"," ","A",".","U+015E",".">>),
    Some(<<"i","s","b","a","n","k"," ",".","c","o","m","."," ","t","r">>),
    Some(<<"w","w","w",".","D","e","n","i","z","B","a","n","k",".","c","o","m",".","t","r">>),
    Some(<<"F","A","S","T">>),
    Some(<<"b","r","e","a","k","f","a","s","t">>)
}

\* what the OCR chain does on the first page
OcrFailures == {"no_dependency", "convert_raises", "no_images", "recognize_raises"}
OcrTexts == {
    None,
    Some(<<"i","s","b","a","n","k",".","c","o","m",".","t","r">>),
    Some(<<"d","e","n","i","z","b","a","n","k",".","c","o","m"," ","F","A","S","T">>),
    Some(<<"z","i","r","a","e","t"," ","k","a","t","i","i","m"," ","c","o","m"," ","t","r">>),
    Some(<<"z","i","r","a","a","t","-","k","a","t","i","l","i","m","-","c","o","m","-","t","r">>),
    Some(<<"w","w","w"," ","."," ","a","l","b","a","r","a","k","a"," ","."," ","c","o","m"," ","."," ","t","r">>),
    Some(<<"D","e","n","i","z","B","a","n","k"," ","A",".","U+015E",".">>)
}
OcrOutcomes ==
    {[kind |-> k, text |-> None] : k \in OcrFailures}
        \cup {[kind |-> "text", text |-> t] : t \in OcrTexts}

TextLayers == UNION {[1..n -> PageTexts] : n \in 0..MaxPages}

\* the configured domains, as (bank index, domain) pairs
DomainsOf(tbl) ==
    UNION {{<<i, tbl[i].domains[j]>> : j \in 1..Len(tbl[i].domains)} : i \in 1..Len(tbl)}

NoOcr == [kind |-> "no_dependency", text |-> None]

\* the documents:
\*   every text layer of at most MaxPages pages, with OCR unavailable;
\*   every text layer of at most one page, and every unreadable file, with every
\*     OCR outcome;
\*   two-page documents with the domains of any two banks, the later configured
\*     bank's domain on the first page;
\*   scans whose only text is one configured domain seen by OCR
Documents ==
    {[readable |-> TRUE, pages |-> p, ocr |-> NoOcr] : p \in TextLayers}
    \cup {[readable |-> TRUE, pages |-> p, ocr |-> o] :
            p \in UNION {[1..n -> PageTexts] : n \in 0..1}, o \in OcrOutcomes}
    \cup {[readable |-> FALSE, pages |-> <<>>, ocr |-> o] : o \in OcrOutcomes}
    \cup {[readable |-> TRUE, pages |-> <<Some(xy[1][2]), Some(xy[2][2])>>, ocr |-> NoOcr] :
            xy \in {q \in DomainsOf(BANK_DOMAINS) \X DomainsOf(BANK_DOMAINS) : q[2][1] < q[1][1]}}
    \cup {[readable |-> TRUE, pages |-> <<None>>, ocr |-> [kind |-> "text", text |-> Some(x[2])]] :
            x \in DomainsOf(BANK_DOMAINS)}

\* a folder of documents classified in any order, one of each kind of outcome
SampleDocs == {
    [readable |-> TRUE, pages |-> <<Some(<<"w","w","w",".","D","e","n","i","z","B","a","n","k",".","c","o","m",".","t","r">>), Some(<<"F","A","S","T">>)>>,
     ocr |-> NoOcr],
    [readable |-> TRUE, pages |-> <<Some(<<"i","s","b","a","n","k"," ",".","c","o","m","."," ","t","r">>), Some(<<"w","w","w",".","D","e","n","i","z","B","a","n","k",".","c","o","m",".","t","r">>)>>,
     ocr |-> NoOcr],
    [readable |-> TRUE, pages |-> <<Some(<<"D","e","n","i","z","B","a","n","k"," ","A",".","U+015E",".">>)>>,
     ocr |-> [kind |-> "text", text |-> Some(<<"w","w","w"," ","."," ","a","l","b","a","r","a","k","a"," ","."," ","c","o","m"," ","."," ","t","r">>)]],
    [readable |-> TRUE, pages |-> <<Some(<<"b","r","e","a","k","f","a","s","t">>)>>,
     ocr |-> [kind |-> "text", text |-> Some(<<"z","i","r","a","e","t"," ","k","a","t","i","i","m"," ","c","o","m"," ","t","r">>)]],
    [readable |-> FALSE, pages |-> <<>>,
     ocr |-> [kind |-> "text", text |-> Some(<<"i","s","b","a","n","k",".","c","o","m",".","t","r">>)]]
}

(***************************************************************************)
(* bank_detect.detect_bank_variant, statement by statement                 *)
(***************************************************************************)
InitialTables ==
    [BANK_DOMAINS |-> BANK_DOMAINS, OCR_DOMAIN_BANKS |-> OCR_DOMAIN_BANKS,
     DENIZ_TEXT_MARKERS |-> DENIZ_TEXT_MARKERS, VARIANT_AFTER_BANK |-> VARIANT_AFTER_BANK]

DetectInit(p) ==
    /\ tables = InitialTables
    /\ pool = p
    /\ calls = 0
    /\ seen = <<>>
    /\ pc = "idle"
    /\ pdf_path = None
    /\ text_norm = <<>>
    /\ det = None
    /\ trace = <<>>
    /\ result = None

\* a caller calls detect_bank_variant(pdf_path) on a document of the folder
Call ==
    /\ pc = "idle"
    /\ calls < MaxCalls
    /\ \E d \in pool : pdf_path' = d
    /\ calls' = calls + 1
    /\ pc' = "extract"
    /\ text_norm' = <<>>
    /\ det' = None
    /\ trace' = <<>>
    /\ result' = None
    /\ UNCHANGED <<tables, pool, seen, pure_vars>>

\* raw = extract_text(pdf_path, max_pages=2); text_norm = normalize_text(raw)
Extract ==
    /\ pc = "extract"
    /\ LET raw == extract_text(pdf_path, max_pages)
       IN  IF raw.exc
           THEN /\ pc' = "raised"
                /\ UNCHANGED text_norm
           ELSE /\ text_norm' = normalize_text(Some(raw.val))
                /\ pc' = "text_domain"
    /\ UNCHANGED <<tables, pool, calls, seen, pdf_path, det, trace, result, pure_vars>>

\* a variant of TextDomain that moves the bank it found to the front of BANK_DOMAINS
MoveToFront(table, key) ==
    SelectSeq(table, LAMBDA e : e.key = key) \o SelectSeq(table, LAMBDA e : e.key # key)
TextDomain_move_to_front ==
    /\ pc = "text_domain"
    /\ det' = detect_bank_by_text_domains(text_norm)
    /\ trace' = Append(trace, "text-domain")
    /\ pc' = IF det' = None THEN "text_name" ELSE "variant"
    /\ tables' = IF det' = None THEN tables
                 ELSE [tables EXCEPT !.BANK_DOMAINS = MoveToFront(@, det'.key)]
    /\ UNCHANGED <<pool, calls, seen, pdf_path, text_norm, result, pure_vars>>

\* det = detect_bank_by_text_domains(text_norm)
TextDomain ==
    /\ pc = "text_domain"
    /\ det' = detect_bank_by_text_domains(text_norm)
    /\ trace' = Append(trace, "text-domain")
    /\ pc' = IF det' = None THEN "text_name" ELSE "variant"
    /\ UNCHANGED <<tables, pool, calls, seen, pdf_path, text_norm, result, pure_vars>>

\* a variant of TextName that goes on to the OCR attempt whatever it found
TextName_always_ocr ==
    /\ pc = "text_name"
    /\ det' = detect_deniz_by_text_name(text_norm)
    /\ trace' = Append(trace, "text-name")
    /\ pc' = "ocr"
    /\ UNCHANGED <<tables, pool, calls, seen, pdf_path, text_norm, result, pure_vars>>

\* if not det: det = detect_deniz_by_text_name(text_norm)
TextName ==
    /\ pc = "text_name"
    /\ det' = detect_deniz_by_text_name(text_norm)
    /\ trace' = Append(trace, "text-name")
    /\ pc' = IF det' = None THEN "ocr" ELSE "variant"
    /\ UNCHANGED <<tables, pool, calls, seen, pdf_path, text_norm, result, pure_vars>>

\* if not det: det = detect_bank_by_ocr_domains(pdf_path)
OcrDomain ==
    /\ pc = "ocr"
    /\ LET r == detect_bank_by_ocr_domains(pdf_path)
       IN  IF r.exc
           THEN /\ pc' = "raised"
                /\ UNCHANGED det
           ELSE /\ det' = r.val
                /\ pc' = IF r.val = None THEN "unknown" ELSE "variant"
    /\ trace' = Append(trace, "ocr")
    /\ UNCHANGED <<tables, pool, calls, seen, pdf_path, text_norm, result, pure_vars>>

\* the return of a record to the caller (text_norm and det keep the values the
\* finished call left in them until the next call starts)
Return(rec) ==
    /\ result' = rec
    /\ seen' = Append(seen, [doc |-> pdf_path, res |-> rec])
    /\ pc' = "idle"
    /\ UNCHANGED <<tables, pool, calls, pdf_path, text_norm, trace, pure_vars>>

\* if not det: return {"key": "UNKNOWN", "bank": "Unknown", "variant": None, "method": "none"}
ReturnUnknown ==
    /\ pc = "unknown"
    /\ UNCHANGED det
    /\ Return(UNKNOWN)

\* a variant of ApplyVariant that reads the OCR text when OCR found the bank
ApplyVariant_on_ocr_text ==
    /\ pc = "variant"
    /\ LET evidence == IF det.method = "ocr-domain"
                       THEN normalize_text(Some(ocr_first_page_text(pdf_path).val))
                       ELSE text_norm
           kv == apply_variant(det.key, evidence)
       IN  /\ det' = [det EXCEPT !.key = kv[1], !.variant = kv[2]]
           /\ Return(det')

\* parser_key, variant = apply_variant(det["key"], text_norm);
\* det["key"] = parser_key; det["variant"] = variant; return det
ApplyVariant ==
    /\ pc = "variant"
    /\ LET kv == apply_variant(det.key, text_norm)
       IN  /\ det' = [det EXCEPT !.key = kv[1], !.variant = kv[2]]
           /\ Return(det')

\* detect_bank_variant as one function of the document
detect_bank_variant(doc) ==
    LET raw == extract_text(doc, max_pages)
        t == normalize_text(Some(raw.val))
        d1 == detect_bank_by_text_domains(t)
        d2 == IF d1 = None THEN detect_deniz_by_text_name(t) ELSE d1
        d3 == IF d2 = None THEN detect_bank_by_ocr_domains(doc).val ELSE d2
    IN  IF d3 = None THEN UNKNOWN
        ELSE LET kv == apply_variant(d3.key, t)
             IN  [d3 EXCEPT !.key = kv[1], !.variant = kv[2]]

(***************************************************************************)
(* normalize_text, statement by statement, and then called on its own      *)
(* result                                                                  *)
(***************************************************************************)
MaxLen == 3

NormAlphabet ==
    {"a", "I", "U+0130", "U+0131", "U+0307", "U+015E", " ", "U+00A0", "U+13A0", "U+AB70"}
NormInputs ==
    {None} \cup {Some(x) : x \in UNION {[1..n -> NormAlphabet] : n \in 0..MaxLen}}

NormInit ==
    /\ nin \in NormInputs
    /\ nstage = "start"
    /\ nwork = <<>>
    /\ npass = 1
    /\ nfirst = None

\* t = (text or "").casefold()
NormCasefold ==
    /\ nstage = "start"
    /\ nwork' = nt_casefold(nin)
    /\ nstage' = "casefolded"
    /\ UNCHANGED <<nin, npass, nfirst, detect_vars, dom_vars, var_vars, dup_vars>>

\*   .replace("̇", "")
NormStripDot ==
    /\ nstage = "casefolded"
    /\ nwork' = nt_strip_dot(nwork)
    /\ nstage' = "dot_stripped"
    /\ UNCHANGED <<nin, npass, nfirst, detect_vars, dom_vars, var_vars, dup_vars>>

\* t = t.translate(tr)
NormTranslate ==
    /\ nstage = "dot_stripped"
    /\ nwork' = nt_translate(nwork)
    /\ nstage' = "translated"
    /\ UNCHANGED <<nin, npass, nfirst, detect_vars, dom_vars, var_vars, dup_vars>>

\* t = re.sub(r"\s+", " ", t)
NormCollapse ==
    /\ nstage = "translated"
    /\ nwork' = nt_collapse(nwork)
    /\ nstage' = "collapsed"
    /\ UNCHANGED <<nin, npass, nfirst, detect_vars, dom_vars, var_vars, dup_vars>>

\* return t.strip()
NormStrip ==
    /\ nstage = "collapsed"
    /\ nwork' = nt_strip(nwork)
    /\ nstage' = "done"
    /\ UNCHANGED <<nin, npass, nfirst, detect_vars, dom_vars, var_vars, dup_vars>>

\* normalize_text is called on what it returned
NormAgain ==
    /\ nstage = "done"
    /\ npass = 1
    /\ nfirst' = Some(nwork)
    /\ nin' = Some(nwork)
    /\ npass' = 2
    /\ nstage' = "start"
    /\ nwork' = <<>>
    /\ UNCHANGED <<detect_vars, dom_vars, var_vars, dup_vars>>

(***************************************************************************)
(* has_domain on a text whose occurrence of a configured domain was        *)
(* damaged by whitespace                                                   *)
(***************************************************************************)
MaxGaps == 2

DomPrefix == <<"W","e","b",":"," ">>
DomSuffix == <<" ","1">>
\* the whitespace a text extractor puts at a line wrap or between glyph runs
GapChars == {" ", "\n"}
\* a character that is no whitespace, which breaks the occurrence for good
DamageChars == GapChars \cup {"-"}

InsertAt(t, k, c) == SubSeq(t, 1, k) \o <<c>> \o SubSeq(t, k + 1, Len(t))

\* dlo..dhi is the damaged occurrence; dgaps[1] counts the insertions, dgaps[2] is
\* the character inserted, dgaps[3] the position of the last insertion
DomInit ==
    /\ \E x \in DomainsOf(BANK_DOMAINS) :
        /\ ddom = x[2]
        /\ dtext = DomPrefix \o x[2] \o DomSuffix
        /\ dlo = Len(DomPrefix) + 1
        /\ dhi = Len(DomPrefix) + Len(x[2])
    /\ \E c \in DamageChars : dgaps = <<0, c, 0>>
    /\ dres = None

\* one more character of the kind dgaps[2] appears inside the occurrence, at or
\* after the last one
InsertGap ==
    /\ dres = None
    /\ dgaps[1] < MaxGaps
    /\ \E k \in dlo..(dhi - 1) :
        /\ k >= dgaps[3]
        /\ dtext' = InsertAt(dtext, k, dgaps[2])
        /\ dgaps' = <<dgaps[1] + 1, dgaps[2], k + 1>>
    /\ dhi' = dhi + 1
    /\ UNCHANGED <<ddom, dlo, dres, detect_vars, norm_vars, var_vars, dup_vars>>

\* has_domain(normalize_text(text), domain)
MatchDomain ==
    /\ dres = None
    /\ dres' = Some(has_domain(normalize_text(Some(dtext)), ddom))
    /\ UNCHANGED <<ddom, dtext, dlo, dhi, dgaps, detect_vars, norm_vars, var_vars, dup_vars>>

(***************************************************************************)
(* apply_variant on a bank key and a normalized text                       *)
(***************************************************************************)
MaxWords == 2

VariantWords == {
    <<"F","A","S","T">>,
    <<"b","r","e","a","k","f","a","s","t">>,
    <<"f","a","s","t","1">>,
    <<"(","F","A","S","T",")">>,
    <<"H","a","v","a","l","e">>,
    <<"e","f","a","s","t"," ","s","o","r","g","u"," ","n","u","m","a","r","a","s","U+0131">>
}
VariantTexts ==
    {normalize_text(Some(Join(<<" ">>, ws))) :
        ws \in UNION {[1..n -> VariantWords] : n \in 0..MaxWords}}
BankKeys == {BANK_DOMAINS[i].key : i \in 1..Len(BANK_DOMAINS)}

VarInit ==
    /\ vkey \in BankKeys
    /\ vtext \in VariantTexts
    /\ vout = None

\* parser_key, variant = apply_variant(base_key, text_norm)
VariantApply ==
    /\ vout = None
    /\ vout' = Some(apply_variant(vkey, vtext))
    /\ UNCHANGED <<vkey, vtext, detect_vars, norm_vars, dom_vars, dup_vars>>

(***************************************************************************)
(* remove_duplicates on a folder of at most MaxFiles paths                 *)
(***************************************************************************)
MaxFiles == 3

Paths == {NameOrder[i] : i \in 1..MaxFiles}
\* the files of the model: two contents of one size and one of another, two
\* modification times, a file that cannot be read and one that cannot be removed
FileEntries ==
    {File(<<0>>, 1, "none"), File(<<0>>, 2, "none"), File(<<1>>, 1, "none"),
     File(<<0, 0>>, 1, "none"), File(<<0>>, 2, "hash"), File(<<0>>, 2, "remove")}
\* a symlink points to another path, which is no symlink
Folders ==
    {f \in [Paths -> {NoEntry} \cup FileEntries \cup {Link(q) : q \in Paths}] :
        \A p \in Paths : f[p].kind = "link" =>
            f[p].target # p /\ f[f[p].target].kind # "link"}
PathLists == UNION {[1..n -> Paths] : n \in 0..MaxFiles}

DupInit ==
    /\ fs \in Folders
    /\ fs0 = fs
    /\ pdfs \in PathLists
    /\ dup_dir = <<>>
    /\ by_size = <<>>
    /\ gi = 0
    /\ kept = <<>>
    /\ deleted = 0 /\ moved = 0 /\ failed = 0
    /\ rd_pc = "start"
    /\ unique_kept = None

\* by_size = {}; for p in pdfs: ...; kept = []; deleted = moved = failed = 0
GroupFiles ==
    /\ rd_pc = "start"
    /\ by_size' = GroupBySize(fs, pdfs, 1, <<>>)
    /\ gi' = 1
    /\ rd_pc' = "groups"
    /\ UNCHANGED <<fs, fs0, dup_dir, pdfs, kept, deleted, moved, failed, unique_kept>>
    /\ UNCHANGED <<detect_vars, norm_vars, dom_vars, var_vars>>

\* if len(group) == 1: kept.append(group[0]); continue
KeepSingle ==
    /\ rd_pc = "groups"
    /\ gi <= Len(by_size)
    /\ Len(by_size[gi].group) = 1
    /\ kept' = Append(kept, by_size[gi].group[1])
    /\ gi' = gi + 1
    /\ UNCHANGED <<fs, fs0, dup_dir, pdfs, by_size, deleted, moved, failed, rd_pc, unique_kept>>
    /\ UNCHANGED <<detect_vars, norm_vars, dom_vars, var_vars>>

\* one pass of the loop over by_size.items() for a group of several paths:
\* hash them, then keep one path per digest and remove the others
RemoveInGroup ==
    /\ rd_pc = "groups"
    /\ gi <= Len(by_size)
    /\ Len(by_size[gi].group) > 1
    /\ LET h == HashGroup(fs, by_size[gi].group, 1, [by_hash |-> <<>>, kept |-> kept])
           st == RemoveByHash([fs |-> fs, dup_dir |-> dup_dir, kept |-> h.kept,
                               deleted |-> deleted, moved |-> moved, failed |-> failed,
                               exc |-> FALSE],
                              h.by_hash, 1)
       IN  /\ fs' = st.fs
           /\ dup_dir' = st.dup_dir
           /\ kept' = st.kept
           /\ deleted' = st.deleted
           /\ moved' = st.moved
           /\ failed' = st.failed
           /\ rd_pc' = IF st.exc THEN "raised" ELSE "groups"
    /\ gi' = gi + 1
    /\ UNCHANGED <<fs0, pdfs, by_size, unique_kept>>
    /\ UNCHANGED <<detect_vars, norm_vars, dom_vars, var_vars>>

\* the summary is printed and unique_kept is returned
ReturnKept ==
    /\ rd_pc = "groups"
    /\ gi > Len(by_size)
    /\ unique_kept' = Some(UniqueKept(fs, kept, 1, {}, <<>>))
    /\ rd_pc' = "done"
    /\ UNCHANGED <<fs, fs0, dup_dir, pdfs, by_size, gi, kept, deleted, moved, failed>>
    /\ UNCHANGED <<detect_vars, norm_vars, dom_vars, var_vars>>

ParkedNorm == nin = None /\ nstage = "off" /\ nwork = <<>> /\ npass = 0 /\ nfirst = None
ParkedDom == ddom = <<>> /\ dtext = <<>> /\ dlo = 0 /\ dhi = 0 /\ dgaps = <<0, " ", 0>> /\ dres = None
ParkedVar == vkey = "" /\ vtext = <<>> /\ vout = None
ParkedDup ==
    /\ fs = <<>> /\ fs0 = <<>> /\ dup_dir = <<>> /\ pdfs = <<>> /\ by_size = <<>> /\ gi = 0
    /\ kept = <<>> /\ deleted = 0 /\ moved = 0 /\ failed = 0 /\ rd_pc = "off"
    /\ unique_kept = None

(***************************************************************************)
(* Spec: a caller classifies the documents of a folder, one call at a      *)
(* time; the folder holds one document, any of Documents, or SampleDocs.   *)
(***************************************************************************)
Init ==
    /\ \E p \in {{d} : d \in Documents} \cup {SampleDocs} : DetectInit(p)
    /\ ParkedNorm /\ ParkedDom /\ ParkedVar /\ ParkedDup

Next ==
    \/ Call
    \/ Extract
    \/ TextDomain
    \/ TextName
    \/ OcrDomain
    \/ ReturnUnknown
    \/ ApplyVariant

Spec == Init /\ [][Next]_vars

(***************************************************************************)
(* NormSpec: normalize_text on every string over NormAlphabet of at most   *)
(* MaxLen characters, and on None                                          *)
(***************************************************************************)
NormSpecInit == NormInit /\ DetectInit({}) /\ ParkedDom /\ ParkedVar /\ ParkedDup
NormNext ==
    \/ NormCasefold
    \/ NormStripDot
    \/ NormTranslate
    \/ NormCollapse
    \/ NormStrip
    \/ NormAgain
NormSpec == NormSpecInit /\ [][NormNext]_vars

(***************************************************************************)
(* DomSpec: has_domain on every configured domain with at most MaxGaps     *)
(* whitespace characters inserted inside it                                *)
(***************************************************************************)
DomSpecInit == DomInit /\ DetectInit({}) /\ ParkedNorm /\ ParkedVar /\ ParkedDup
DomNext ==
    \/ InsertGap
    \/ MatchDomain
DomSpec == DomSpecInit /\ [][DomNext]_vars

(***************************************************************************)
(* VarSpec: apply_variant on every configured bank key and every text of   *)
(* at most MaxWords words of VariantWords                                  *)
(***************************************************************************)
VarSpecInit == VarInit /\ DetectInit({}) /\ ParkedNorm /\ ParkedDom /\ ParkedDup
VarNext == VariantApply
VarSpec == VarSpecInit /\ [][VarNext]_vars

(***************************************************************************)
(* DupSpec: remove_duplicates on every list of at most MaxFiles paths of   *)
(* every folder of Folders                                                 *)
(***************************************************************************)
DupSpecInit == DupInit /\ DetectInit({}) /\ ParkedNorm /\ ParkedDom /\ ParkedVar
DupNext ==
    \/ GroupFiles
    \/ KeepSingle
    \/ RemoveInGroup
    \/ ReturnKept
DupSpec == DupSpecInit /\ [][DupNext]_vars

(***************************************************************************)
(* Properties of detect_bank_variant (Spec)                                *)
(***************************************************************************)
\* a call has returned and its record, document and locals are in the state
Returned == pc = "idle" /\ result # None

OcrAllowlist == {"DENIZBANK", "ZIRAATKATILIM", "ALBARAKA"}
AllowlistedDomains == {x[2] : x \in DomainsOf(OCR_DOMAIN_BANKS)}
ForeignDomains == {x[2] : x \in DomainsOf(BANK_DOMAINS)} \ AllowlistedDomains

\* the banks (indices of BANK_DOMAINS) with a domain that has_domain finds in t
MatchingBanks(t) ==
    {i \in 1..Len(BANK_DOMAINS) :
        \E j \in 1..Len(BANK_DOMAINS[i].domains) : has_domain(t, BANK_DOMAINS[i].domains[j])}
HasNameMarker(t) == \E i \in 1..Len(DENIZ_TEXT_MARKERS) : IsSubstr(DENIZ_TEXT_MARKERS[i], t)

\* the text of the OCR pass of a document, normalized, when the pass yields one
OcrText(doc) ==
    IF doc.ocr.kind = "text" /\ doc.ocr.text # None
    THEN normalize_text(doc.ocr.text) ELSE <<>>
\* the OCR output holds the domain of a bank outside the allowlist and of no
\* allowlisted bank
OcrOnlyForeign(doc) ==
    /\ \E d \in ForeignDomains : IsSubstr(d, OcrText(doc))
    /\ \A d \in AllowlistedDomains : ~IsSubstr(d, OcrText(doc))

\* C1: a record with method "ocr-domain" has a key of the OCR allowlist, and a
\* document whose text layer has no configured domain and no name marker and whose
\* OCR output holds only the domain of a bank outside the allowlist resolves to the
\* UNKNOWN record
C1_AllowlistEnforcement ==
    Returned =>
        /\ result.method = "ocr-domain" => result.key \in OcrAllowlist
        /\ (/\ OcrOnlyForeign(pdf_path)
            /\ ~HasNameMarker(text_norm)
            /\ MatchingBanks(text_norm) = {}) => result = UNKNOWN
C1_Witness ==
    /\ Returned
    /\ OcrOnlyForeign(pdf_path)
    /\ trace = <<"text-domain", "text-name", "ocr">>
    /\ result = UNKNOWN

\* the attempts made so far are a prefix of the fixed order, and the method of the
\* record is that of the first attempt that succeeds on the text layer
AttemptOrder == <<"text-domain", "text-name", "ocr">>
FirstSuccessDecides ==
    /\ \E n \in 0..3 : trace = SubSeq(AttemptOrder, 1, n)
    /\ Returned =>
        LET matching == MatchingBanks(text_norm)
        IN  /\ result.method = "text-domain" <=> matching # {}
            /\ result.method = "text-name" <=> (matching = {} /\ HasNameMarker(text_norm))
            /\ result.method \in {"ocr-domain", "none"} => trace = AttemptOrder

\* C2: the attempts are made in the order text-domain, name marker, OCR domain and
\* the first that succeeds decides; so when the normalized text layer holds a
\* configured domain of a bank A and also a DenizBank name marker, the record has
\* method "text-domain" and the bank of a configured domain found in the text,
\* never method "text-name"
C2_CascadePrecedence ==
    /\ FirstSuccessDecides
    /\ (Returned /\ HasNameMarker(text_norm)) =>
        LET matching == MatchingBanks(text_norm)
        IN  matching # {} =>
                /\ result.method = "text-domain"
                /\ \E i \in matching :
                    result.key = BANK_DOMAINS[i].key /\ result.bank = BANK_DOMAINS[i].bank
C2_Witness ==
    /\ Returned
    /\ HasNameMarker(text_norm)
    /\ result.method = "text-domain"
    /\ result.key = "ISBANK"

\* C3: in one call the OCR pass is made at most once, only after the text-domain
\* and the name-marker attempts were both made and both failed; a call that a
\* text-layer attempt resolved made no OCR pass
OcrPasses == Len(SelectSeq(trace, LAMBDA a : a = "ocr"))
C3_OcrGating ==
    /\ OcrPasses <= 1
    /\ OcrPasses = 1 =>
        /\ trace = <<"text-domain", "text-name", "ocr">>
        /\ MatchingBanks(text_norm) = {}
        /\ ~HasNameMarker(text_norm)
    /\ (Returned /\ result.method \in {"text-domain", "text-name"}) => OcrPasses = 0
C3_Witness ==
    /\ Returned
    /\ OcrPasses = 1
    /\ result.method = "ocr-domain"

\* C4: the call never raises and always returns a record; a failed extraction
\* leaves the empty text and the cascade goes on, a failed OCR pass leaves the
\* cascade without a bank; and when neither the text layer nor the OCR pass
\* yields text, the record is exactly the UNKNOWN record
NoTextLayer(doc) == ~doc.readable \/ \A i \in 1..Len(doc.pages) : doc.pages[i] = None
NoOcrText(doc) == doc.ocr.kind # "text" \/ doc.ocr.text = None
C4_Totality ==
    /\ pc # "raised"
    /\ Returned =>
        /\ DOMAIN result = {"key", "bank", "variant", "method"}
        /\ (NoTextLayer(pdf_path) /\ NoOcrText(pdf_path)) => result = UNKNOWN
    /\ (pc = "text_domain" /\ ~pdf_path.readable) => text_norm = <<>>
    /\ (pc \in {"unknown", "variant"} /\ OcrPasses = 1 /\ NoOcrText(pdf_path)) => pc = "unknown"
C4_Witness ==
    /\ Returned
    /\ ~pdf_path.readable
    /\ pdf_path.ocr.kind = "recognize_raises"
    /\ result = UNKNOWN

\* C6: when has_domain finds domains of two or more configured banks in the
\* normalized text, the record names the bank that comes first in BANK_DOMAINS,
\* with method "text-domain", and carries no sign of the ambiguity
FirstOf(S) == CHOOSE i \in S : \A k \in S : i <= k
C6_FirstConfiguredWins ==
    Returned =>
        LET matching == MatchingBanks(text_norm)
        IN  Cardinality(matching) >= 2 =>
                /\ result.key = BANK_DOMAINS[FirstOf(matching)].key
                /\ result.bank = BANK_DOMAINS[FirstOf(matching)].bank
                /\ result.method = "text-domain"
                /\ DOMAIN result = {"key", "bank", "variant", "method"}
C6_Witness ==
    /\ Returned
    /\ Cardinality(MatchingBanks(text_norm)) >= 2
    /\ Len(pdf_path.pages) = 2
    /\ pdf_path.pages[1] = Some(BANK_DOMAINS[21].domains[1])
    /\ result.key = "ISBANK"

\* C10: any two calls on the same document returned the same record, whatever
\* documents were classified before, between and after them, and no call has
\* changed the tables that the next classification reads
C10_Idempotence ==
    /\ \A i \in 1..Len(seen) : \A j \in 1..Len(seen) :
            seen[i].doc = seen[j].doc => seen[i].res = seen[j].res
    /\ tables = InitialTables
\* a document with the domains of two banks is classified, then a document of
\* the later configured of the two banks, then the first document again
C10_Witness ==
    /\ Returned
    /\ Len(seen) = 3
    /\ seen[1].doc = seen[3].doc
    /\ seen[2].doc # seen[1].doc
    /\ Cardinality(MatchingBanks(normalize_text(Some(extract_text(seen[1].doc, max_pages).val)))) = 2
    /\ seen[1].res.method = "text-domain"
    /\ seen[2].res.method = "text-domain"
    /\ seen[2].res.key # seen[1].res.key
    /\ seen[3].res = seen[1].res

(***************************************************************************)
(* Properties of apply_variant (VarSpec)                                   *)
(***************************************************************************)
RegisteredKeys == {"DENIZBANK", "ALBARAKA"}
\* "fast" stands in t as a whole word: no word character right before or after it
FastWord(t) ==
    \E i \in 1..Len(t) :
        /\ StartsWithAt(t, i, <<"f","a","s","t">>)
        /\ (i = 1 \/ ~IsWord(t[i - 1]))
        /\ (i + 4 > Len(t) \/ ~IsWord(t[i + 4]))
\* the text holds a marker of the rule registered for the key
HasMarker(key, t) ==
    \/ FastWord(t)
    \/ /\ key = "ALBARAKA"
       /\ IsSubstr(<<"f","a","s","t"," ","s","o","r","g","u"," ","n","u","m","a","r","a","s","i">>, t)

\* C5: apply_variant returns the key unchanged with variant null when the key has
\* no registered rule; the string "UNKNOWN", not null, when the key has a rule
\* (DENIZBANK, ALBARAKA) and the text has none of its markers; and "FAST" for
\* DENIZBANK when the text holds "fast" as a whole word
C5_VariantDefault ==
    vout # None =>
        /\ vkey \notin RegisteredKeys => vout.val = <<vkey, None>>
        /\ (vkey \in RegisteredKeys /\ ~HasMarker(vkey, vtext)) =>
            vout.val = <<vkey, Some("UNKNOWN")>>
        /\ (vkey = "DENIZBANK" /\ FastWord(vtext)) => vout.val = <<"DENIZBANK", Some("FAST")>>
C5_Witness ==
    /\ vout = Some(<<"DENIZBANK", Some("UNKNOWN")>>)
    /\ IsSubstr(<<"f","a","s","t">>, vtext)

(***************************************************************************)
(* Properties of normalize_text (NormSpec)                                 *)
(***************************************************************************)
\* C7: normalize_text applied to its own output returns that output, for every
\* input string, the empty one and null included
C7_FixedPoint ==
    (npass = 2 /\ nstage = "done") => nwork = nfirst.val
C7_Witness ==
    /\ npass = 2
    /\ nstage = "done"
    /\ nwork = <<"i", " ", "s">>

\* the parts of the normal form that hold of every output: none of the domestic
\* letters or their capitals, no dot above, whitespace only as single spaces
\* between two other characters
DomesticFree(t) == \A i \in 1..Len(t) : t[i] \notin DomesticLetters
DotFree(t) == \A i \in 1..Len(t) : t[i] # "U+0307"
SingleSpaced(t) ==
    \A i \in 1..Len(t) :
        IsSpace(t[i]) => /\ t[i] = " "
                         /\ 1 < i /\ i < Len(t)
                         /\ ~IsSpace(t[i - 1]) /\ ~IsSpace(t[i + 1])
\* the dot above is gone from the step after casefolding on, so before the letters
\* are folded
DotStrippedFirst ==
    nstage \in {"dot_stripped", "translated", "collapsed", "done"} => DotFree(nwork)

\* C8 (as stated): the output of normalize_text holds no uppercase letter, none of
\* the domestic letters or their capitals, no dot above, whitespace only as single
\* spaces between other characters, and the dot above is stripped before folding
C8_NormalForm_AsStated ==
    /\ nstage = "done" =>
        /\ \A i \in 1..Len(nwork) : ~IsUpper(nwork[i])
        /\ DomesticFree(nwork)
        /\ DotFree(nwork)
        /\ SingleSpaced(nwork)
    /\ DotStrippedFirst

\* C8: the output of normalize_text holds no character that casefolding changes
\* (so no capital that has a small form of its own; a capital that is its own
\* casefolded form, such as a Cherokee capital, stays), none of the domestic
\* letters or their capitals, no dot above, whitespace only as single spaces
\* between other characters, and the dot above is stripped before folding
C8_NormalForm ==
    /\ nstage = "done" =>
        /\ \A i \in 1..Len(nwork) : casefold_char(nwork[i]) = <<nwork[i]>>
        /\ DomesticFree(nwork)
        /\ DotFree(nwork)
        /\ SingleSpaced(nwork)
    /\ DotStrippedFirst
C8_Witness ==
    /\ npass = 1
    /\ nstage = "done"
    /\ nin = Some(<<"U+0130", "U+00A0", "U+AB70">>)
    /\ nwork = <<"i", " ", "U+13A0">>

(***************************************************************************)
(* Properties of has_domain (DomSpec)                                      *)
(***************************************************************************)
\* C9: has_domain is true exactly when one of its three tiers matches, and it is
\* true of the normalized text for every configured domain and every text made
\* from one that holds the domain by putting whitespace inside the occurrence
C9_MatchTolerance ==
    dres # None =>
        LET t == normalize_text(Some(dtext))
            dom == str_strip(str_casefold(ddom))
        IN  /\ dgaps[2] \in GapChars => dres.val = TRUE
            /\ dres.val = (TierSubstring(t, dom) \/ TierCompact(t, dom) \/ TierRegex(t, dom))
C9_Witness ==
    /\ dres = Some(TRUE)
    /\ ddom = <<"i","s","b","a","n","k",".","c","o","m",".","t","r">>
    /\ dtext = DomPrefix \o <<"i","s"," ","b","a","n","k",".","c","o","m",".","t","r">> \o DomSuffix

(***************************************************************************)
(* Further properties of detect_bank_variant (Spec)                        *)
(***************************************************************************)
\* the display name configured for a key in BANK_DOMAINS
DisplayNames(key) ==
    {BANK_DOMAINS[i].bank : i \in {k \in 1..Len(BANK_DOMAINS) : BANK_DOMAINS[k].key = key}}

\* C12: every returned record has a method among text-domain, text-name,
\* ocr-domain, none; its key is "UNKNOWN" exactly when its method is "none" exactly
\* when its bank is "Unknown"; method "text-name" comes with key "DENIZBANK"; a
\* record other than UNKNOWN has the display name configured for its key in
\* BANK_DOMAINS; and its variant is non-null exactly when its key has a
\* registered variant rule
C12_ResultCoherence ==
    Returned =>
        /\ result.method \in {"text-domain", "text-name", "ocr-domain", "none"}
        /\ (result.key = "UNKNOWN") = (result.method = "none")
        /\ (result.method = "none") = (result.bank = "Unknown")
        /\ result.method = "text-name" => result.key = "DENIZBANK"
        /\ result.key # "UNKNOWN" => DisplayNames(result.key) = {result.bank}
        /\ (result.variant # None) = (result.key \in RegisteredKeys)
C12_Witness ==
    /\ Returned
    /\ result.method = "text-domain"
    /\ result.key = "DENIZBANK"
    /\ result.bank = "DenizBank"
    /\ result.variant = Some("FAST")

\* C13: the variant is computed from the normalized text layer, whatever the
\* method: for a key with a variant rule it is "FAST" exactly when the text layer
\* holds a marker of the rule, so a bank found by OCR whose text layer has no
\* marker gets "UNKNOWN" even when the OCR text holds the word "fast"; and the
\* name markers are looked for in the text layer only
C13_VariantFromTextLayer ==
    Returned =>
        /\ result.key \in RegisteredKeys =>
            result.variant = IF HasMarker(result.key, text_norm)
                             THEN Some("FAST") ELSE Some("UNKNOWN")
        /\ result.method = "text-name" => HasNameMarker(text_norm)
        /\ (/\ HasNameMarker(OcrText(pdf_path))
            /\ ~HasNameMarker(text_norm)
            /\ \A d \in AllowlistedDomains : ~IsSubstr(d, OcrText(pdf_path)))
           => result.method # "text-name"
C13_Witness ==
    /\ Returned
    /\ result.method = "ocr-domain"
    /\ result.key = "DENIZBANK"
    /\ FastWord(OcrText(pdf_path))
    /\ ~FastWord(text_norm)
    /\ result.variant = Some("UNKNOWN")

(***************************************************************************)
(* Properties of remove_duplicates (DupSpec)                               *)
(***************************************************************************)
\* the input files: the paths of the list that name a file when the call starts
InputFiles == {q \in Paths : exists(fs0, q) /\ \E i \in 1..Len(pdfs) : pdfs[i] = q}
BytesOf(f, q) == f[resolve(f, q)].bytes
\* the input files with the bytes of q
SameBytes(q) == {r \in InputFiles : BytesOf(fs0, r) = BytesOf(fs0, q)}
\* the oldest of a group by modification time, ties broken by name
OldestOf(G) == CHOOSE q \in G : \A r \in G \ {q} : KeyLess(fs0, q, r)
\* the path names nothing any more, or its entry went to _DUPLICATES
Removed(q) == fs[q].kind = "none"

\* C11: after remove_duplicates, of every group of input files with identical
\* bytes exactly one remains, the oldest by modification time (ties broken by
\* name); every other file of the group has been deleted (or moved to
\* _DUPLICATES); and a file whose content is unique among the inputs is neither
\* deleted nor moved
C11_OneCopyPerContent ==
    rd_pc = "done" =>
        \A q \in InputFiles :
            /\ {r \in SameBytes(q) : exists(fs, r)} = {OldestOf(SameBytes(q))}
            /\ \A r \in SameBytes(q) \ {OldestOf(SameBytes(q))} : Removed(r)
            /\ SameBytes(q) = {q} => (fs[q] = fs0[q] /\ exists(fs, q))
====
